---- MODULE Spec2Model ----
(***************************************************************************)
(* Model of plugins/PyQuickStart/QuickStartMain.py: the QuickStartMain     *)
(* plugin stub, the entry point main() and the __main__ guard.             *)
(*                                                                         *)
(* The host base class AbstractMain (module rlpswrapper) is not part of    *)
(* the source file.  Its run(argc, argv) method is modelled as an          *)
(* unconstrained driver: once entered it calls initialize() and            *)
(* getPluginName() on the instance any number of times in any order and    *)
(* finally returns an arbitrary integer status.                            *)
(*                                                                         *)
(* Every variable is indexed by an execution of the program (Runs).  Spec  *)
(* executes Main alone; SpecPair executes two runs side by side so that    *)
(* statements comparing two executions can be checked.                     *)
(***************************************************************************)
EXTENDS Integers, Sequences, FiniteSets

\* ---------------------------------------------------------------- bounds
MaxArgs   == 2      \* longest sys.argv considered
MaxCalls  == 3      \* calls the host makes on the instance during run()
MaxStatus == 2      \* run() returns a status in 0..MaxStatus

ArgValues == {"prog", "--opt"}
Runs      == {"run1", "run2"}
Main      == "run1" \* the execution Spec is about

\* ------------------------------------------------------- values and types
None    == -1                        \* no value yet
Success == "Success"                 \* rlpswrapper.Success()
Error   == "Error"                   \* rlpswrapper.Error(...)

Statuses   == 0 .. MaxStatus
ArgVectors == UNION {[1 .. n -> ArgValues] : n \in 1 .. MaxArgs}

VARIABLES
    argv,        \* sys.argv of the process
    pc,          \* position of the execution
    instances,   \* QuickStartMain objects constructed so far
    lifecycle,   \* "none", "constructed", "initialized"
    stdout,      \* lines the component wrote to standard output
    trace,       \* completed calls on the instance: [op, ret]
    runCalls,    \* calls of mainObj.run made by main()
    runArgc,     \* first argument of the run call
    runArgv,     \* second argument of the run call
    runResult,   \* value run() returned
    mainResult,  \* value main() returned
    exitStatus   \* result of the program

vars == <<argv, pc, instances, lifecycle, stdout, trace, runCalls, runArgc,
          runArgv, runResult, mainResult, exitStatus>>

\* What a method of the instance can read: the object and the sys module.
Self(r) == [argv |-> argv[r], lifecycle |-> lifecycle[r],
            calls |-> Len(trace[r])]

\* ------------------------------------------------------ QuickStartMain
\* Variants of initialize() with a plausible defect.
initialize_ErrorOnRepeat(self) ==
    [out |-> <<"Initializing Python Quickstart Plugin...">>,
     ret |-> IF self.lifecycle = "initialized" THEN Error ELSE Success]

initialize_PrintTwice(self) ==
    [out |-> <<"Initializing Python Quickstart Plugin...",
               "Initializing Python Quickstart Plugin...">>,
     ret |-> Success]

initialize_ReadsArgv(self) ==
    [out |-> IF Len(self.argv) > 1
             THEN <<"Initializing Python Quickstart Plugin (verbose)...">>
             ELSE <<"Initializing Python Quickstart Plugin...">>,
     ret |-> Success]

\* def initialize(self): print(...); return Success()
initialize(self) ==
    [out |-> <<"Initializing Python Quickstart Plugin...">>, ret |-> Success]

\* Variant of getPluginName() that has no name before initialization.
getPluginName_UnsetBeforeInit(self) ==
    IF self.lifecycle = "initialized" THEN "pyquickstart" ELSE ""

\* def getPluginName(self): return "pyquickstart"
getPluginName(self) == "pyquickstart"

\* ------------------------------------------------------------- helpers
InitEvents(r) == {i \in DOMAIN trace[r] : trace[r][i].op = "initialize"}
NameEvents(r) == {i \in DOMAIN trace[r] : trace[r][i].op = "getPluginName"}
InInitialize(r) == pc[r] \in {"initialize", "initialize_return"}
\* initialize() calls begun so far
InitEntered(r) == Cardinality(InitEvents(r)) + (IF InInitialize(r) THEN 1 ELSE 0)

\* --------------------------------------------------------------- Init
InitRun(r) ==
    /\ pc[r] = "toplevel"
    /\ instances[r] = 0
    /\ lifecycle[r] = "none"
    /\ stdout[r] = <<>>
    /\ trace[r] = <<>>
    /\ runCalls[r] = 0
    /\ runArgc[r] = None
    /\ runArgv[r] = <<>>
    /\ runResult[r] = None
    /\ mainResult[r] = None
    /\ exitStatus[r] = None

TypeShape ==
    /\ argv \in [Runs -> ArgVectors]
    /\ pc \in [Runs -> {"toplevel"}]
    /\ instances \in [Runs -> {0}]
    /\ lifecycle \in [Runs -> {"none"}]
    /\ stdout \in [Runs -> {<<>>}]
    /\ trace \in [Runs -> {<<>>}]
    /\ runCalls \in [Runs -> {0}]
    /\ runArgc \in [Runs -> {None}]
    /\ runArgv \in [Runs -> {<<>>}]
    /\ runResult \in [Runs -> {None}]
    /\ mainResult \in [Runs -> {None}]
    /\ exitStatus \in [Runs -> {None}]

InitPair == TypeShape /\ \A r \in Runs : InitRun(r)

\* Spec runs one execution; the other index is an idle copy of it.
Init == InitPair /\ \A r \in Runs : argv[r] = argv[Main]

\* ------------------------------------------------------------- actions
\* if __name__ == "__main__": main()     (the call)
ModuleCallMain(r) ==
    /\ pc[r] = "toplevel"
    /\ pc' = [pc EXCEPT ![r] = "main"]
    /\ UNCHANGED <<argv, instances, lifecycle, stdout, trace, runCalls,
                   runArgc, runArgv, runResult, mainResult, exitStatus>>

\* mainObj = QuickStartMain()
Construct(r) ==
    /\ pc[r] = "main"
    /\ pc' = [pc EXCEPT ![r] = "constructed"]
    /\ instances' = [instances EXCEPT ![r] = @ + 1]
    /\ lifecycle' = [lifecycle EXCEPT ![r] = "constructed"]
    /\ UNCHANGED <<argv, stdout, trace, runCalls, runArgc, runArgv,
                   runResult, mainResult, exitStatus>>

\* Variant: the program name is stripped before delegating.
CallRun_DropProgName(r) ==
    /\ pc[r] = "constructed"
    /\ pc' = [pc EXCEPT ![r] = "in_run"]
    /\ runCalls' = [runCalls EXCEPT ![r] = @ + 1]
    /\ runArgc' = [runArgc EXCEPT ![r] = Len(argv[r]) - 1]
    /\ runArgv' = [runArgv EXCEPT ![r] = Tail(argv[r])]
    /\ UNCHANGED <<argv, instances, lifecycle, stdout, trace, runResult,
                   mainResult, exitStatus>>

\* Variant: the count excludes the program name, the vector does not.
CallRun_ArgcMinusOne(r) ==
    /\ pc[r] = "constructed"
    /\ pc' = [pc EXCEPT ![r] = "in_run"]
    /\ runCalls' = [runCalls EXCEPT ![r] = @ + 1]
    /\ runArgc' = [runArgc EXCEPT ![r] = Len(argv[r]) - 1]
    /\ runArgv' = [runArgv EXCEPT ![r] = argv[r]]
    /\ UNCHANGED <<argv, instances, lifecycle, stdout, trace, runResult,
                   mainResult, exitStatus>>

\* mainObj.run(len(sys.argv), sys.argv)   (the call)
CallRun(r) ==
    /\ pc[r] = "constructed"
    /\ pc' = [pc EXCEPT ![r] = "in_run"]
    /\ runCalls' = [runCalls EXCEPT ![r] = @ + 1]
    /\ runArgc' = [runArgc EXCEPT ![r] = Len(argv[r])]
    /\ runArgv' = [runArgv EXCEPT ![r] = argv[r]]
    /\ UNCHANGED <<argv, instances, lifecycle, stdout, trace, runResult,
                   mainResult, exitStatus>>

\* host: run() calls self.initialize()
HostCallInitialize(r) ==
    /\ pc[r] = "in_run"
    /\ Len(trace[r]) < MaxCalls
    /\ pc' = [pc EXCEPT ![r] = "initialize"]
    /\ UNCHANGED <<argv, instances, lifecycle, stdout, trace, runCalls,
                   runArgc, runArgv, runResult, mainResult, exitStatus>>

\* print("Initializing Python Quickstart Plugin...")
InitializePrint(r) ==
    /\ pc[r] = "initialize"
    /\ stdout' = [stdout EXCEPT ![r] = @ \o initialize(Self(r)).out]
    /\ pc' = [pc EXCEPT ![r] = "initialize_return"]
    /\ UNCHANGED <<argv, instances, lifecycle, trace, runCalls, runArgc,
                   runArgv, runResult, mainResult, exitStatus>>

\* return Success()
InitializeReturn(r) ==
    /\ pc[r] = "initialize_return"
    /\ LET ret == initialize(Self(r)).ret IN
         /\ trace' = [trace EXCEPT
                        ![r] = Append(@, [op |-> "initialize", ret |-> ret])]
         /\ lifecycle' = [lifecycle EXCEPT
                        ![r] = IF ret = Success THEN "initialized" ELSE @]
    /\ pc' = [pc EXCEPT ![r] = "in_run"]
    /\ UNCHANGED <<argv, instances, stdout, runCalls, runArgc, runArgv,
                   runResult, mainResult, exitStatus>>

\* host: run() calls self.getPluginName()
HostCallGetPluginName(r) ==
    /\ pc[r] = "in_run"
    /\ Len(trace[r]) < MaxCalls
    /\ pc' = [pc EXCEPT ![r] = "getPluginName"]
    /\ UNCHANGED <<argv, instances, lifecycle, stdout, trace, runCalls,
                   runArgc, runArgv, runResult, mainResult, exitStatus>>

\* Variant: the accessor logs its call on standard output.
GetPluginNameReturn_Prints(r) ==
    /\ pc[r] = "getPluginName"
    /\ stdout' = [stdout EXCEPT ![r] = Append(@, "getPluginName")]
    /\ trace' = [trace EXCEPT
                   ![r] = Append(@, [op |-> "getPluginName",
                                     ret |-> getPluginName(Self(r))])]
    /\ pc' = [pc EXCEPT ![r] = "in_run"]
    /\ UNCHANGED <<argv, instances, lifecycle, runCalls, runArgc,
                   runArgv, runResult, mainResult, exitStatus>>

\* Variant: the accessor resets the object to its constructed state.
GetPluginNameReturn_Resets(r) ==
    /\ pc[r] = "getPluginName"
    /\ lifecycle' = [lifecycle EXCEPT ![r] = "constructed"]
    /\ trace' = [trace EXCEPT
                   ![r] = Append(@, [op |-> "getPluginName",
                                     ret |-> getPluginName(Self(r))])]
    /\ pc' = [pc EXCEPT ![r] = "in_run"]
    /\ UNCHANGED <<argv, instances, stdout, runCalls, runArgc,
                   runArgv, runResult, mainResult, exitStatus>>

\* return "pyquickstart"
GetPluginNameReturn(r) ==
    /\ pc[r] = "getPluginName"
    /\ trace' = [trace EXCEPT
                   ![r] = Append(@, [op |-> "getPluginName",
                                     ret |-> getPluginName(Self(r))])]
    /\ pc' = [pc EXCEPT ![r] = "in_run"]
    /\ UNCHANGED <<argv, instances, lifecycle, stdout, runCalls, runArgc,
                   runArgv, runResult, mainResult, exitStatus>>

\* host: run() returns a status
HostReturn(r) ==
    /\ pc[r] = "in_run"
    /\ \E s \in Statuses : runResult' = [runResult EXCEPT ![r] = s]
    /\ pc' = [pc EXCEPT ![r] = "run_returned"]
    /\ UNCHANGED <<argv, instances, lifecycle, stdout, trace, runCalls,
                   runArgc, runArgv, mainResult, exitStatus>>

\* Variant: main() calls run but has no return statement's value.
MainReturn_Zero(r) ==
    /\ pc[r] = "run_returned"
    /\ mainResult' = [mainResult EXCEPT ![r] = 0]
    /\ pc' = [pc EXCEPT ![r] = "main_returned"]
    /\ UNCHANGED <<argv, instances, lifecycle, stdout, trace, runCalls,
                   runArgc, runArgv, runResult, exitStatus>>

\* return mainObj.run(...)               (the return of main)
MainReturn(r) ==
    /\ pc[r] = "run_returned"
    /\ mainResult' = [mainResult EXCEPT ![r] = runResult[r]]
    /\ pc' = [pc EXCEPT ![r] = "main_returned"]
    /\ UNCHANGED <<argv, instances, lifecycle, stdout, trace, runCalls,
                   runArgc, runArgv, runResult, exitStatus>>

\* main() is an expression statement: its value is dropped, the module body
\* ends and the interpreter exits with status 0.
ModuleExit(r) ==
    /\ pc[r] = "main_returned"
    /\ exitStatus' = [exitStatus EXCEPT ![r] = 0]
    /\ pc' = [pc EXCEPT ![r] = "exited"]
    /\ UNCHANGED <<argv, instances, lifecycle, stdout, trace, runCalls,
                   runArgc, runArgv, runResult, mainResult>>

Step(r) ==
    \/ ModuleCallMain(r)
    \/ Construct(r)
    \/ CallRun(r)
    \/ HostCallInitialize(r)
    \/ InitializePrint(r)
    \/ InitializeReturn(r)
    \/ HostCallGetPluginName(r)
    \/ GetPluginNameReturn(r)
    \/ HostReturn(r)
    \/ MainReturn(r)
    \/ ModuleExit(r)

Next == Step(Main)

Spec == Init /\ [][Next]_vars

NextPair == \E r \in Runs : Step(r)

SpecPair == InitPair /\ [][NextPair]_vars

\* ================================================================ claims
InitLine   == "Initializing Python Quickstart Plugin..."
PluginName == "pyquickstart"
AfterRun   == {"run_returned", "main_returned", "exited"}

\* C1: every call of getPluginName() returns exactly "pyquickstart", a
\* non-empty value that is the same before and after initialize() and in
\* every state in which the instance exists.
C1_NameIsConstant ==
    \A r \in Runs :
        /\ \A i \in NameEvents(r) : trace[r][i].ret = PluginName
        /\ instances[r] > 0 =>
             /\ getPluginName(Self(r)) = PluginName
             /\ getPluginName(Self(r)) # ""

\* getPluginName() was called before and again after an initialize() call.
C1_Witness ==
    \E i, j, k \in DOMAIN trace[Main] :
        /\ i < j /\ j < k
        /\ trace[Main][i].op = "getPluginName"
        /\ trace[Main][j].op = "initialize"
        /\ trace[Main][k].op = "getPluginName"

\* C2: every call of initialize(), first or repeated, returns the success
\* marker; the error marker is never returned.
C2_InitializeSucceeds ==
    \A r \in Runs : \A i \in InitEvents(r) :
        trace[r][i].ret = Success /\ trace[r][i].ret # Error

\* initialize() has returned at least twice.
C2_Witness == Cardinality(InitEvents(Main)) >= 2

\* C3: each initialize() call appends exactly one line, the literal text,
\* and the line is on standard output before the call returns: the output
\* holds one such line per completed call plus one for a call that has
\* printed and not yet returned.
C3_OneLinePerCall ==
    \A r \in Runs :
        /\ \A i \in DOMAIN stdout[r] : stdout[r][i] = InitLine
        /\ Len(stdout[r]) = Cardinality(InitEvents(r))
                            + (IF pc[r] = "initialize_return" THEN 1 ELSE 0)

\* A second initialize() call has printed and is about to return.
C3_Witness ==
    /\ pc[Main] = "initialize_return"
    /\ Cardinality(InitEvents(Main)) = 1
    /\ Len(stdout[Main]) = 2

\* C4: main() constructs exactly one instance, then calls run exactly once
\* on it with the original argument count and the original argument vector.
C4_DelegatesOnce ==
    \A r \in Runs :
        /\ instances[r] <= 1
        /\ runCalls[r] <= 1
        /\ runCalls[r] = 1 =>
             /\ instances[r] = 1
             /\ runArgc[r] = Len(argv[r])
             /\ runArgv[r] = argv[r]
        /\ pc[r] \in AfterRun => instances[r] = 1 /\ runCalls[r] = 1
        /\ pc[r] \in {"toplevel", "main", "constructed"} => runCalls[r] = 0

\* The program has finished a run that was given more than a program name.
C4_Witness == pc[Main] = "exited" /\ Len(argv[Main]) >= 2

\* C5: the program's result equals the value run() returned.
C5_ExitPropagates ==
    \A r \in Runs : pc[r] = "exited" => exitStatus[r] = runResult[r]

\* C6: main() returns exactly the value run() returned, and not before
\* run() has returned.
C6_MainReturnsRunResult ==
    \A r \in Runs :
        /\ pc[r] \in {"main_returned", "exited"} =>
             mainResult[r] = runResult[r] /\ runResult[r] \in Statuses
        /\ pc[r] \notin {"main_returned", "exited"} => mainResult[r] = None

\* main() has returned a non-zero status.
C6_Witness == pc[Main] = "main_returned" /\ mainResult[Main] > 0

\* C7: a getPluginName() call leaves standard output, the lifecycle state
\* and the argument vector unchanged, and it ends by returning a value to
\* its caller.
C7_GetPluginNameFrame ==
    [][\A r \in Runs :
         (pc[r] = "getPluginName" \/ pc'[r] = "getPluginName") =>
            /\ stdout'[r] = stdout[r]
            /\ lifecycle'[r] = lifecycle[r]
            /\ argv'[r] = argv[r]
            /\ pc[r] = "getPluginName" =>
                 /\ pc'[r] = "in_run"
                 /\ Len(trace'[r]) = Len(trace[r]) + 1
                 /\ trace'[r][Len(trace'[r])].op = "getPluginName"
                 /\ trace'[r][Len(trace'[r])].ret \notin {Error, ""}]_vars

\* getPluginName() has returned on an initialized object with output.
C7_Witness ==
    /\ lifecycle[Main] = "initialized"
    /\ Len(stdout[Main]) > 0
    /\ Len(trace[Main]) > 0
    /\ trace[Main][Len(trace[Main])].op = "getPluginName"

\* C8 as stated: over a whole run the component writes at most once to
\* standard output, whatever calls the host makes.
C8_AtMostOneWrite == \A r \in Runs : Len(stdout[r]) <= 1

\* C8 amended: the component writes at most once per initialize() call and
\* never otherwise, so at most once when the host calls initialize() at
\* most once; the object is initialized exactly when an initialize() call
\* has returned and never falls back to constructed.
C8_AtMostOneWritePerInitialize ==
    \A r \in Runs :
        /\ Len(stdout[r]) <= InitEntered(r)
        /\ InitEntered(r) <= 1 => Len(stdout[r]) <= 1
        /\ lifecycle[r] = "initialized" <=> InitEvents(r) # {}
        /\ lifecycle[r] = "constructed" <=>
             (instances[r] = 1 /\ InitEvents(r) = {})

\* The host called initialize() more than once and other calls followed.
C8_Witness ==
    /\ Len(stdout[Main]) >= 2
    /\ lifecycle[Main] = "initialized"
    /\ NameEvents(Main) # {}
    /\ pc[Main] = "exited"

\* C9: the argument count passed to run equals the number of elements of
\* the argument vector passed in the same call.
C9_ArgcMatchesArgv ==
    \A r \in Runs : runCalls[r] > 0 => runArgc[r] = Len(runArgv[r])

\* run was called with a vector holding only the program name.
C9_Witness == runCalls[Main] = 1 /\ Len(runArgv[Main]) = 1

\* C10: any two initialize() calls, in the same execution or in two
\* executions with different argument vectors and different call
\* histories, return the same result and write the same line.
C10_InitializeIndependent ==
    \A r1, r2 \in Runs :
        /\ \A i \in InitEvents(r1), j \in InitEvents(r2) :
               trace[r1][i].ret = trace[r2][j].ret
        /\ \A i \in DOMAIN stdout[r1], j \in DOMAIN stdout[r2] :
               stdout[r1][i] = stdout[r2][j]

\* Two executions with argument vectors of different length, one calling
\* initialize() first and the other after other calls, have both returned
\* from initialize().
C10_Witness ==
    /\ Len(argv["run1"]) # Len(argv["run2"])
    /\ Len(trace["run1"]) = 1
    /\ trace["run1"][1].op = "initialize"
    /\ Len(trace["run2"]) = 3
    /\ trace["run2"][1].op = "getPluginName"
    /\ trace["run2"][2].op = "initialize"
    /\ trace["run2"][3].op = "initialize"

====
